---------------------------- MODULE Spec2Model ----------------------------
(***************************************************************************)
(* Sequential identifier allocation of the poultry LIMS backend:           *)
(* the counters table (app/models/counter.py), the in-memory reservation   *)
(* map and the allocation operations of CounterRepository                  *)
(* (app/repositories/counter_repository.py).                               *)
(*                                                                         *)
(* Spec      : requests run one at a time (each handler is one step).      *)
(* SpecRace  : two request threads run increment_*_counter step by step    *)
(*             (SELECT, INSERT, UPDATE+COMMIT, refresh), interleaved.      *)
(* SpecReg   : sample registration (preview_codes, create_sample,          *)
(*             update_sample), one request at a time.                      *)
(* SpecCode  : the report-number formatter applied to a disease name, a    *)
(*             year and a counter value.                                   *)
(* SpecCoa   : creation and update of microbiology COAs, one request at a  *)
(*             time.                                                       *)
(* SpecYear  : Spec with the turn of the year.                             *)
(* SpecCache : requests of different users run the reservation operations  *)
(*             statement by statement, interleaved.                        *)
(***************************************************************************)
EXTENDS Integers, Sequences, FiniteSets, TLC

(***************************************************************************)
(* Bounds of the model                                                     *)
(***************************************************************************)
NumUsers == 2
MaxValue == 3
MaxNow == 4
MaxNumber == 2

(***************************************************************************)
(* Program constants                                                       *)
(***************************************************************************)
RESERVATION_TIMEOUT_MINUTES == 2

Users == 1..NumUsers
NoUser == 0
\* department_id = NULL of the sample counters
NoDept == 0
\* the year datetime.now().year yields, as an offset from the first year
Years == {0, 1}
\* "no row": the query's .first() returned None
NoCounter == -1
\* the requester holds no reservation
NoYear == -1

\* departments.id of the existing departments
Depts == {1, 2}
\* the request threads of the server's pool that run at the same time
Threads == {1, 2}

(***************************************************************************)
(* Strings                                                                 *)
(***************************************************************************)
UpperCase == "ABCDEFGHIJKLMNOPQRSTUVWXYZ"
LowerCase == "abcdefghijklmnopqrstuvwxyz"

char_at(s, i) == SubSeq(s, i, i)

\* the place of a character in an alphabet, 0 when it is not in it
index_in(alphabet, ch) ==
    IF \E i \in 1..Len(alphabet) : char_at(alphabet, i) = ch
    THEN CHOOSE i \in 1..Len(alphabet) : char_at(alphabet, i) = ch
    ELSE 0

\* each upper-case letter's lower-case letter, and the reverse
ToLower ==
    [ch \in {char_at(UpperCase, i) : i \in 1..Len(UpperCase)} |->
        char_at(LowerCase, index_in(UpperCase, ch))]
ToUpper ==
    [ch \in {char_at(LowerCase, i) : i \in 1..Len(LowerCase)} |->
        char_at(UpperCase, index_in(LowerCase, ch))]

\* str.lower()
RECURSIVE lower(_)
lower(s) ==
    IF s = "" THEN ""
    ELSE (IF Head(s) \in DOMAIN ToLower THEN ToLower[Head(s)] ELSE Head(s))
             \o lower(Tail(s))

\* str.upper()
RECURSIVE upper(_)
upper(s) ==
    IF s = "" THEN ""
    ELSE (IF Head(s) \in DOMAIN ToUpper THEN ToUpper[Head(s)] ELSE Head(s))
             \o upper(Tail(s))

\* key in s
contains(key, s) ==
    \E i \in 1..(Len(s) - Len(key) + 1) : SubSeq(s, i, i + Len(key) - 1) = key

\* the disease names of COA payloads (keys of test_results)
CoaDiseases == {"Salmonella", "salmonella", "Total Count", "Count"}

\* counter_type = f"microbiology_{disease_name.lower()}"
disease_counter_type(disease_name) == "microbiology_" \o lower(disease_name)

CounterKeys ==
    {<<"sample", NoDept, y>> : y \in Years}
        \cup {<<"unit", d, y>> : d \in Depts, y \in Years}
        \cup {<<disease_counter_type(n), NoDept, y>> : n \in CoaDiseases, y \in Years}

VARIABLES
    counters,               \* counters table: key -> current_value, or NoCounter
    SAMPLE_RESERVATIONS,    \* user_id -> [number, timestamp], a partial map
    now,                    \* datetime.now(), in minutes
    year,                   \* datetime.now().year
    last,                   \* history: kind, user, return value of the last call
                            \*          and the reservations its sweep dropped
    lastCommitted,          \* history: key -> value the last commit on it returned
    scen,                   \* history: progress of reserve, reserve, commit, commit
    thr,                    \* request threads inside increment_*_counter
    samples,                \* samples table: the sample_code of every row
    units,                  \* units table: the unit_code of every row
    resp,                   \* history: the last registration request and its response
    fmt,                    \* formatter: disease name, year, counter value and
                            \*            the code and report number made of them
    coas,                   \* microbiology_coas table: unit_id -> test_results
                            \*            (its keys) and test_report_numbers
    coaResp,                \* history: the last COA request and its status
    reservedYear,           \* history: user_id -> the year of the counter its
                            \*            reservation was computed from
    dupCounters,            \* counters table: key -> current_value of a second
                            \*            row with the same key, or NoCounter
    call                    \* the request of each user inside
                            \*            reserve_next_sample_number or
                            \*            increment_sample_counter_with_reservation

vars ==
    <<counters, SAMPLE_RESERVATIONS, now, year, last, lastCommitted, scen, thr,
      samples, units, resp, fmt, coas, coaResp, reservedYear, call,
      dupCounters>>
regVars == <<samples, units, resp>>
coaVars == <<coas, coaResp>>
otherVars == <<regVars, fmt, coaVars, call, dupCounters>>
extVars == <<otherVars, reservedYear>>
cacheVars == <<SAMPLE_RESERVATIONS, now, year, last, lastCommitted, scen>>

Max(a, b) == IF a >= b THEN a ELSE b

Restrict(f, S) == [x \in S |-> f[x]]

NoCall == [kind |-> "none", user |-> NoUser, ret |-> 0, swept |-> << >>]
ScenIdle == [stage |-> 0, a |-> NoUser, b |-> NoUser, base |-> 0]
\* a thread outside any call: pc, the counter key it works on, the value the
\* counter had when the call began, the loaded Counter row (rid: 1 the row of
\* counters, 2 the row of dupCounters) and its current_value, whether the
\* SELECT found no row, and the returned value
IdleThread ==
    [pc |-> "idle", key |-> <<"sample", NoDept, 0>>, start |-> NoCounter,
     rid |-> 1, row |-> NoCounter, missed |-> FALSE, ret |-> 0]
\* no registration request yet: operation, HTTP status, sample number,
\* department_id of each requested unit, the unit numbers allocated and the
\* next_unit_number hints returned
NoRequest ==
    [op |-> "none", status |-> 0, number |-> 0, req |-> << >>,
     unit_numbers |-> << >>, hints |-> << >>]
\* no COA request yet: operation, HTTP status, unit_id and the keys of the
\* payload's test_results
NoCoaRequest == [op |-> "none", status |-> 0, unit |-> 0, diseases |-> << >>]
\* a user without a request in the reservation cache: the statement it is
\* at, the operation, the user_ids its sweep found expired, the counter value
\* it read, the number it computed or read, whether it has committed the
\* counter, the returned value and (history) the user that had computed its
\* number but not stored it when this one computed its own
NoCacheCall ==
    [pc |-> "idle", op |-> "none", expired |-> {}, current_value |-> 0,
     number |-> 0, wrote |-> FALSE, ret |-> 0, peer |-> NoUser]
\* nothing to format
NoFormat ==
    [disease |-> "", current_year |-> 0, counter_value |-> 0, done |-> FALSE,
     disease_code |-> "", report_number |-> ""]

(***************************************************************************)
(* Counter store                                                           *)
(***************************************************************************)
get_sample_counter(y) == counters[<<"sample", NoDept, y>>]

\* int(counter.current_value) if counter and counter.current_value else 0
current_value_or_zero(c) == IF c # NoCounter /\ c # 0 THEN c ELSE 0

incremented_twice(c) == (IF c = NoCounter THEN 0 ELSE c) + 2

\* get, create with 0 when missing, += 1, commit, refresh
incremented_value(c) == (IF c = NoCounter THEN 0 ELSE c) + 1

(***************************************************************************)
(* Reservation cache                                                       *)
(***************************************************************************)
\* now - timestamp > timedelta(minutes=RESERVATION_TIMEOUT_MINUTES)
is_expired(timestamp, t) == t - timestamp > RESERVATION_TIMEOUT_MINUTES

cleanup_nothing(res, t) == res

cleanup_everything(res, t) == << >>

cleanup_expired_reservations(res, t) ==
    Restrict(res, {u \in DOMAIN res : ~is_expired(res[u].timestamp, t)})

has_reservation_never(res, u) == FALSE

\* user_id in SAMPLE_RESERVATIONS
has_reservation(res, u) == u \in DOMAIN res

next_number_uncounted(current_value, res) == current_value + 1

\* current_value + 1 + len(SAMPLE_RESERVATIONS)
next_number(current_value, res) == current_value + 1 + Cardinality(DOMAIN res)

reserved_then_incremented(current_value, reserved_number) == reserved_number + 1

reserved_not_assigned(current_value, reserved_number) == current_value

\* counter.current_value = reserved_number
reserved_assignment(current_value, reserved_number) == reserved_number

(***************************************************************************)
(* History of the scenario "A previews, B previews, A commits, B commits"  *)
(***************************************************************************)
ScenAfterReserve(u, fresh, cleaned, cv) ==
    IF fresh /\ DOMAIN cleaned = {}
    THEN [stage |-> 1, a |-> u, b |-> NoUser, base |-> cv]
    ELSE IF fresh /\ scen.stage = 1 /\ u # scen.a /\ DOMAIN cleaned = {scen.a}
    THEN [scen EXCEPT !.stage = 2, !.b = u]
    ELSE ScenIdle

ScenAfterCommit(u) ==
    IF scen.stage = 2 /\ u = scen.a THEN [scen EXCEPT !.stage = 3]
    ELSE IF scen.stage = 3 /\ u = scen.b THEN [scen EXCEPT !.stage = 4]
    ELSE ScenIdle

(***************************************************************************)
(* Operations (one request at a time)                                      *)
(***************************************************************************)
InitStore ==
    /\ counters = [k \in CounterKeys |-> NoCounter]
    /\ SAMPLE_RESERVATIONS = << >>
    /\ now = 0
    /\ year = 0
    /\ last = NoCall
    /\ lastCommitted = [k \in CounterKeys |-> 0]
    /\ scen = ScenIdle
    /\ thr = [t \in Threads |-> IdleThread]
    /\ samples = {}
    /\ units = {}
    /\ resp = NoRequest
    /\ coas = << >>
    /\ coaResp = NoCoaRequest
    /\ reservedYear = [u \in Users |-> NoYear]
    /\ call = [u \in Users |-> NoCacheCall]
    /\ dupCounters = [k \in CounterKeys |-> NoCounter]

Init ==
    /\ InitStore
    /\ fmt = NoFormat

\* time passes
Tick ==
    /\ now < MaxNow
    /\ now' = now + 1
    /\ UNCHANGED <<counters, SAMPLE_RESERVATIONS, year, last, lastCommitted, scen, thr>>

reserve_next_sample_number(user_id) ==
    LET cleaned == cleanup_expired_reservations(SAMPLE_RESERVATIONS, now)
        dropped == Restrict(SAMPLE_RESERVATIONS,
                            DOMAIN SAMPLE_RESERVATIONS \ DOMAIN cleaned)
        current_value == current_value_or_zero(get_sample_counter(year))
    IN  /\ IF has_reservation(cleaned, user_id)
           THEN /\ SAMPLE_RESERVATIONS' =
                       [cleaned EXCEPT ![user_id].timestamp = now]
                /\ last' = [kind |-> "refresh", user |-> user_id,
                            ret |-> cleaned[user_id].number, swept |-> dropped]
                /\ scen' = ScenAfterReserve(user_id, FALSE, cleaned, current_value)
           ELSE /\ current_value < MaxValue
                /\ SAMPLE_RESERVATIONS' =
                       [u \in DOMAIN cleaned \cup {user_id} |->
                           IF u = user_id
                           THEN [number |-> next_number(current_value, cleaned),
                                 timestamp |-> now]
                           ELSE cleaned[u]]
                /\ last' = [kind |-> "reserve", user |-> user_id,
                            ret |-> next_number(current_value, cleaned),
                            swept |-> dropped]
                /\ scen' = ScenAfterReserve(user_id, TRUE, cleaned, current_value)
        /\ UNCHANGED <<counters, now, year, lastCommitted, thr>>

increment_sample_counter_with_reservation(user_id) ==
    LET key == <<"sample", NoDept, year>>
        c == get_sample_counter(year)
    IN  /\ IF has_reservation(SAMPLE_RESERVATIONS, user_id)
           THEN LET reserved_number == SAMPLE_RESERVATIONS[user_id].number
                IN  /\ counters' = [counters EXCEPT ![key] =
                           reserved_assignment(IF c = NoCounter THEN 0 ELSE c,
                                               reserved_number)]
                    /\ SAMPLE_RESERVATIONS' =
                           Restrict(SAMPLE_RESERVATIONS,
                                    DOMAIN SAMPLE_RESERVATIONS \ {user_id})
                    /\ last' = [kind |-> "commit_reserved", user |-> user_id,
                                ret |-> reserved_number, swept |-> << >>]
                    /\ lastCommitted' = [lastCommitted EXCEPT ![key] = reserved_number]
           ELSE /\ c < MaxValue
                /\ counters' = [counters EXCEPT ![key] = incremented_value(c)]
                /\ last' = [kind |-> "commit_fresh", user |-> user_id,
                            ret |-> incremented_value(c), swept |-> << >>]
                /\ lastCommitted' =
                       [lastCommitted EXCEPT ![key] = incremented_value(c)]
                /\ UNCHANGED SAMPLE_RESERVATIONS
        /\ scen' = ScenAfterCommit(user_id)
        /\ UNCHANGED <<now, year, thr>>

Next ==
    \/ Tick /\ UNCHANGED extVars
    \/ \E u \in Users : reserve_next_sample_number(u) /\ UNCHANGED extVars
    \/ \E u \in Users :
          increment_sample_counter_with_reservation(u) /\ UNCHANGED extVars

Spec == Init /\ [][Next]_vars

(***************************************************************************)
(* The allocation operations across the turn of the year                   *)
(***************************************************************************)
\* the clock passes midnight of 31 December: datetime.now().year changes
new_year ==
    /\ year + 1 \in Years
    /\ now < MaxNow
    /\ now' = now + 1
    /\ year' = year + 1
    /\ UNCHANGED <<counters, SAMPLE_RESERVATIONS, last, lastCommitted, scen, thr>>

\* the year of the counter each reservation left by a call was computed from
reserved_years(fresh_user) ==
    [u \in Users |->
        IF u \notin DOMAIN SAMPLE_RESERVATIONS' THEN NoYear
        ELSE IF u = fresh_user THEN year
        ELSE reservedYear[u]]

NextYear ==
    \/ Tick /\ UNCHANGED extVars
    \/ new_year /\ UNCHANGED extVars
    \/ \E u \in Users :
          /\ reserve_next_sample_number(u)
          /\ reservedYear' =
                 reserved_years(IF last'.kind = "reserve" THEN u ELSE NoUser)
          /\ UNCHANGED otherVars
    \/ \E u \in Users :
          /\ increment_sample_counter_with_reservation(u)
          /\ reservedYear' = reserved_years(NoUser)
          /\ UNCHANGED otherVars

SpecYear == Init /\ [][NextYear]_vars

(***************************************************************************)
(* increment_sample_counter / increment_unit_counter, statement by         *)
(* statement, run by concurrent request threads (each with its own         *)
(* Session; every SELECT sees what has been committed so far)              *)
(***************************************************************************)
raceRest == <<regVars, fmt, coaVars, call, reservedYear>>

\* the rows of the counters table with this key: row id -> current_value
counter_rows(key) ==
    [r \in {r \in {1, 2} : (IF r = 1 THEN counters[key] ELSE dupCounters[key])
                               # NoCounter} |->
        IF r = 1 THEN counters[key] ELSE dupCounters[key]]

\* a request enters increment_sample_counter(year) or
\* increment_unit_counter(department_id, year)
increment_counter_call(t, key) ==
    /\ thr[t].pc = "idle"
    /\ counters[key] < MaxValue
    /\ dupCounters[key] < MaxValue
    /\ thr' = [thr EXCEPT ![t] = [IdleThread EXCEPT !.pc = "get", !.key = key,
                                                    !.start = counters[key]]]
    /\ UNCHANGED <<counters, dupCounters, cacheVars>>

\* counter = self.get_*_counter(...): SELECT ... .first(), without ORDER BY:
\* any row with the key
increment_counter_get(t) ==
    /\ thr[t].pc = "get"
    /\ LET rows == counter_rows(thr[t].key)
       IN  IF DOMAIN rows = {}
           THEN thr' = [thr EXCEPT ![t].row = NoCounter, ![t].missed = TRUE,
                                   ![t].pc = "create"]
           ELSE \E r \in DOMAIN rows :
                   thr' = [thr EXCEPT ![t].rid = r, ![t].row = rows[r],
                                      ![t].pc = "add"]
    /\ UNCHANGED <<counters, dupCounters, cacheVars>>

\* the unique constraint uq_counters_type_dept_year on (counter_type,
\* department_id, year) applies to an INSERT with this key: a row with
\* department_id NULL equals no other row under a UNIQUE constraint
unique_applies(key) == key[2] # NoDept

\* if not counter: counter = self.create_*_counter(...): INSERT, commit,
\* refresh; the unique constraint rejects the INSERT when a row it applies to
\* has appeared since the SELECT
increment_counter_create(t) ==
    /\ thr[t].pc = "create"
    /\ IF counters[thr[t].key] = NoCounter
       THEN /\ counters' = [counters EXCEPT ![thr[t].key] = 0]
            /\ thr' = [thr EXCEPT ![t].rid = 1, ![t].row = 0, ![t].pc = "add"]
            /\ UNCHANGED dupCounters
       ELSE IF unique_applies(thr[t].key) \/ dupCounters[thr[t].key] # NoCounter
       THEN /\ thr' = [thr EXCEPT ![t].pc = "failed"]
            /\ UNCHANGED <<counters, dupCounters>>
       ELSE /\ dupCounters' = [dupCounters EXCEPT ![thr[t].key] = 0]
            /\ thr' = [thr EXCEPT ![t].rid = 2, ![t].row = 0, ![t].pc = "add"]
            /\ UNCHANGED counters
    /\ UNCHANGED cacheVars

\* the value "counter.current_value += 1" computes from the loaded row
added_one(row) == row + 1

\* counter.current_value += 1; self.db.commit():
\* UPDATE counters SET current_value = <loaded value + 1> WHERE id = ..., COMMIT
increment_counter_commit(t) ==
    /\ thr[t].pc = "add"
    /\ IF thr[t].rid = 1
       THEN /\ counters' = [counters EXCEPT ![thr[t].key] = added_one(thr[t].row)]
            /\ UNCHANGED dupCounters
       ELSE /\ dupCounters' =
                   [dupCounters EXCEPT ![thr[t].key] = added_one(thr[t].row)]
            /\ UNCHANGED counters
    /\ thr' = [thr EXCEPT ![t].row = added_one(thr[t].row), ![t].pc = "refresh"]
    /\ UNCHANGED cacheVars

\* self.db.refresh(counter); return counter.current_value
increment_counter_return(t) ==
    /\ thr[t].pc = "refresh"
    /\ thr' = [thr EXCEPT ![t].row = counter_rows(thr[t].key)[thr[t].rid],
                          ![t].ret = counter_rows(thr[t].key)[thr[t].rid],
                          ![t].pc = "done"]
    /\ UNCHANGED <<counters, dupCounters, cacheVars>>

\* all requests of the round have ended; the threads take new requests
requests_end ==
    /\ \A t \in Threads : thr[t].pc \in {"done", "failed"}
    /\ thr' = [t \in Threads |-> IdleThread]
    /\ UNCHANGED <<counters, dupCounters, cacheVars>>

\* the sample counter and the unit counters of the current year
RaceKeys == {k \in CounterKeys : k[1] \in {"sample", "unit"} /\ k[3] = year}

NextRace ==
    \/ \E t \in Threads, k \in RaceKeys :
          increment_counter_call(t, k) /\ UNCHANGED raceRest
    \/ \E t \in Threads : increment_counter_get(t) /\ UNCHANGED raceRest
    \/ \E t \in Threads : increment_counter_create(t) /\ UNCHANGED raceRest
    \/ \E t \in Threads : increment_counter_commit(t) /\ UNCHANGED raceRest
    \/ \E t \in Threads : increment_counter_return(t) /\ UNCHANGED raceRest
    \/ requests_end /\ UNCHANGED raceRest

SpecRace == Init /\ [][NextRace]_vars

(***************************************************************************)
(* reserve_next_sample_number and increment_sample_counter_with_reservation, *)
(* statement by statement, run by the request threads of different users   *)
(* on the one module-level dict SAMPLE_RESERVATIONS                        *)
(***************************************************************************)
cacheRest ==
    <<year, last, lastCommitted, scen, thr, regVars, fmt, coaVars, reservedYear,
      dupCounters>>

\* the clock advances while requests are in progress
cache_tick ==
    /\ now < MaxNow
    /\ now' = now + 1
    /\ UNCHANGED <<counters, SAMPLE_RESERVATIONS, call, cacheRest>>

\* a request of the user enters reserve_next_sample_number (op "reserve") or
\* increment_sample_counter_with_reservation (op "commit")
cache_call(user_id, op) ==
    /\ call[user_id].pc \in {"idle", "done", "failed"}
    /\ current_value_or_zero(get_sample_counter(year)) < MaxValue
    /\ call' = [u \in Users |->
                   IF u = user_id
                   THEN [NoCacheCall EXCEPT
                            !.op = op,
                            !.pc = IF op = "reserve" THEN "scan" ELSE "member"]
                   ELSE IF call[u].peer = user_id
                   THEN [call[u] EXCEPT !.peer = NoUser]
                   ELSE call[u]]
    /\ UNCHANGED <<counters, SAMPLE_RESERVATIONS, now, cacheRest>>

\* _cleanup_expired_reservations, first loop: collect the expired user_ids
cleanup_scan(user_id) ==
    /\ call[user_id].pc = "scan"
    /\ call' = [call EXCEPT
                   ![user_id].expired =
                       {u \in DOMAIN SAMPLE_RESERVATIONS :
                           is_expired(SAMPLE_RESERVATIONS[u].timestamp, now)},
                   ![user_id].pc = "delete"]
    /\ UNCHANGED <<counters, SAMPLE_RESERVATIONS, now, cacheRest>>

\* _cleanup_expired_reservations, second loop: del SAMPLE_RESERVATIONS[user_id]
\* for each collected id; KeyError when another request has deleted it
cleanup_delete(user_id) ==
    /\ call[user_id].pc = "delete"
    /\ SAMPLE_RESERVATIONS' =
           Restrict(SAMPLE_RESERVATIONS,
                    DOMAIN SAMPLE_RESERVATIONS \ call[user_id].expired)
    /\ call' = [call EXCEPT
                   ![user_id].pc =
                       IF call[user_id].expired \subseteq DOMAIN SAMPLE_RESERVATIONS
                       THEN "check" ELSE "failed"]
    /\ UNCHANGED <<counters, now, cacheRest>>

\* if user_id in SAMPLE_RESERVATIONS
reserve_check(user_id) ==
    /\ call[user_id].pc = "check"
    /\ call' = [call EXCEPT
                   ![user_id].pc =
                       IF has_reservation(SAMPLE_RESERVATIONS, user_id)
                       THEN "refresh" ELSE "query"]
    /\ UNCHANGED <<counters, SAMPLE_RESERVATIONS, now, cacheRest>>

\* number, _ = SAMPLE_RESERVATIONS[user_id]; store (number, now); return number
reserve_refresh(user_id) ==
    /\ call[user_id].pc = "refresh"
    /\ IF has_reservation(SAMPLE_RESERVATIONS, user_id)
       THEN /\ SAMPLE_RESERVATIONS' =
                   [SAMPLE_RESERVATIONS EXCEPT ![user_id].timestamp = now]
            /\ call' = [call EXCEPT
                           ![user_id].op = "refresh",
                           ![user_id].number = SAMPLE_RESERVATIONS[user_id].number,
                           ![user_id].ret = SAMPLE_RESERVATIONS[user_id].number,
                           ![user_id].pc = "done"]
       ELSE /\ call' = [call EXCEPT ![user_id].pc = "failed"]
            /\ UNCHANGED SAMPLE_RESERVATIONS
    /\ UNCHANGED <<counters, now, cacheRest>>

\* counter = self.get_sample_counter(year); current_value = ... else 0
reserve_get_counter(user_id) ==
    /\ call[user_id].pc = "query"
    /\ call' = [call EXCEPT
                   ![user_id].current_value =
                       current_value_or_zero(get_sample_counter(year)),
                   ![user_id].pc = "count"]
    /\ UNCHANGED <<counters, SAMPLE_RESERVATIONS, now, cacheRest>>

\* next_number = current_value + 1 + len(SAMPLE_RESERVATIONS)
reserve_count(user_id) ==
    /\ call[user_id].pc = "count"
    /\ call' = [call EXCEPT
                   ![user_id].number =
                       next_number(call[user_id].current_value, SAMPLE_RESERVATIONS),
                   ![user_id].peer =
                       IF \E v \in Users \ {user_id} : call[v].pc = "store"
                       THEN CHOOSE v \in Users \ {user_id} : call[v].pc = "store"
                       ELSE NoUser,
                   ![user_id].pc = "store"]
    /\ UNCHANGED <<counters, SAMPLE_RESERVATIONS, now, cacheRest>>

\* SAMPLE_RESERVATIONS[user_id] = (next_number, datetime.now()); return it
reserve_store(user_id) ==
    /\ call[user_id].pc = "store"
    /\ SAMPLE_RESERVATIONS' =
           [u \in DOMAIN SAMPLE_RESERVATIONS \cup {user_id} |->
               IF u = user_id
               THEN [number |-> call[user_id].number, timestamp |-> now]
               ELSE SAMPLE_RESERVATIONS[u]]
    /\ call' = [call EXCEPT ![user_id].ret = call[user_id].number,
                            ![user_id].pc = "done"]
    /\ UNCHANGED <<counters, now, cacheRest>>

\* if user_id in SAMPLE_RESERVATIONS; without a reservation:
\* return self.increment_sample_counter(year)
commit_check(user_id) ==
    /\ call[user_id].pc = "member"
    /\ IF has_reservation(SAMPLE_RESERVATIONS, user_id)
       THEN /\ call' = [call EXCEPT ![user_id].pc = "read"]
            /\ UNCHANGED counters
       ELSE LET c == get_sample_counter(year)
            IN  /\ counters' = [counters EXCEPT ![<<"sample", NoDept, year>>] =
                                   incremented_value(c)]
                /\ call' = [call EXCEPT ![user_id].wrote = TRUE,
                                        ![user_id].ret = incremented_value(c),
                                        ![user_id].pc = "done"]
    /\ UNCHANGED <<SAMPLE_RESERVATIONS, now, cacheRest>>

\* reserved_number, _ = SAMPLE_RESERVATIONS[user_id]
commit_read(user_id) ==
    /\ call[user_id].pc = "read"
    /\ call' = [call EXCEPT
                   ![user_id].number =
                       IF has_reservation(SAMPLE_RESERVATIONS, user_id)
                       THEN SAMPLE_RESERVATIONS[user_id].number ELSE 0,
                   ![user_id].pc =
                       IF has_reservation(SAMPLE_RESERVATIONS, user_id)
                       THEN "write" ELSE "failed"]
    /\ UNCHANGED <<counters, SAMPLE_RESERVATIONS, now, cacheRest>>

\* get or create the counter; counter.current_value = reserved_number; commit
commit_write(user_id) ==
    /\ call[user_id].pc = "write"
    /\ LET c == get_sample_counter(year)
       IN  counters' = [counters EXCEPT ![<<"sample", NoDept, year>>] =
                           reserved_assignment(IF c = NoCounter THEN 0 ELSE c,
                                               call[user_id].number)]
    /\ call' = [call EXCEPT ![user_id].wrote = TRUE, ![user_id].pc = "remove"]
    /\ UNCHANGED <<SAMPLE_RESERVATIONS, now, cacheRest>>

\* del SAMPLE_RESERVATIONS[user_id]; return reserved_number
commit_delete(user_id) ==
    /\ call[user_id].pc = "remove"
    /\ IF has_reservation(SAMPLE_RESERVATIONS, user_id)
       THEN /\ SAMPLE_RESERVATIONS' =
                   Restrict(SAMPLE_RESERVATIONS,
                            DOMAIN SAMPLE_RESERVATIONS \ {user_id})
            /\ call' = [call EXCEPT ![user_id].ret = call[user_id].number,
                                    ![user_id].pc = "done"]
       ELSE /\ call' = [call EXCEPT ![user_id].pc = "failed"]
            /\ UNCHANGED SAMPLE_RESERVATIONS
    /\ UNCHANGED <<counters, now, cacheRest>>

NextCache ==
    \/ cache_tick
    \/ \E u \in Users, op \in {"reserve", "commit"} : cache_call(u, op)
    \/ \E u \in Users : cleanup_scan(u)
    \/ \E u \in Users : cleanup_delete(u)
    \/ \E u \in Users : reserve_check(u)
    \/ \E u \in Users : reserve_refresh(u)
    \/ \E u \in Users : reserve_get_counter(u)
    \/ \E u \in Users : reserve_count(u)
    \/ \E u \in Users : reserve_store(u)
    \/ \E u \in Users : commit_check(u)
    \/ \E u \in Users : commit_read(u)
    \/ \E u \in Users : commit_write(u)
    \/ \E u \in Users : commit_delete(u)

SpecCache == Init /\ [][NextCache]_vars

(***************************************************************************)
(* Sample registration (app/services/sample_service.py,                    *)
(* app/api/v1/routers/samples.py), one request at a time                   *)
(***************************************************************************)
\* departments.code of the default departments
DeptCode == [d \in Depts |-> IF d = 1 THEN "PCR" ELSE "SER"]
\* a department_id no row of departments has
MissingDept == 3
DeptIds == Depts \cup {MissingDept}
\* the calendar year of year offset 0
FirstYear == 2025
\* payloads: the department_id of each entry of the units list
UnitRequests ==
    {<< >>, <<1>>, <<1, 1>>, <<1, 2>>, <<1, MissingDept>>}

\* f"{n:02d}"
two_digits(n) == IF n < 10 THEN "0" \o ToString(n) ELSE ToString(n)

\* datetime.now().year
calendar_year(y) == FirstYear + y

\* current_year % 100
year_short(current_year) == current_year % 100

\* f"SMP{year_short:02d}-{sample_number}"
sample_code(y, sample_number) ==
    "SMP" \o two_digits(year_short(calendar_year(y))) \o "-"
          \o ToString(sample_number)

\* f"{department.code}-{unit_counter}"
unit_code(department_id, unit_counter) ==
    DeptCode[department_id] \o "-" \o ToString(unit_counter)

unit_key_shared(department_id, y) == <<"unit", 2, y>>

\* the row get_unit_counter filters for: counter_type, department_id, year
unit_key(department_id, y) == <<"unit", department_id, y>>

\* self.dept_repo.get_by_id(department_id) found a row
department_exists(department_id) == department_id \in Depts

\* the payload's units whose department exists, in payload order
RECURSIVE existing_departments(_)
existing_departments(unit_depts) ==
    IF unit_depts = << >> THEN << >>
    ELSE (IF department_exists(Head(unit_depts)) THEN <<Head(unit_depts)>> ELSE << >>)
             \o existing_departments(Tail(unit_depts))

\* increment_unit_counter for each department of the list, in order: the
\* counters table after the calls and the values they returned
RECURSIVE increment_unit_counters(_, _, _)
increment_unit_counters(cs, unit_depts, y) ==
    IF unit_depts = << >> THEN [counters |-> cs, numbers |-> << >>]
    ELSE LET key == unit_key(Head(unit_depts), y)
             unit_counter == incremented_value(cs[key])
             rest == increment_unit_counters([cs EXCEPT ![key] = unit_counter],
                                             Tail(unit_depts), y)
         IN  [counters |-> rest.counters,
              numbers |-> <<unit_counter>> \o rest.numbers]

\* the unit_code of every unit of the list, given the allocated numbers
unit_codes(unit_depts, numbers) ==
    [i \in DOMAIN unit_depts |-> unit_code(unit_depts[i], numbers[i])]

\* the first unit whose INSERT the unique index on units.unit_code rejects
\* (0: none)
first_rejected_unit(codes) ==
    LET rejected == {i \in DOMAIN codes :
                        \/ codes[i] \in units
                        \/ \E j \in 1..(i - 1) : codes[j] = codes[i]}
    IN  IF rejected = {} THEN 0
        ELSE CHOOSE i \in rejected : \A j \in rejected : i <= j

next_unit_number_current(c) == IF c = NoCounter THEN 0 ELSE c

\* current_unit_value = current_counter.current_value if current_counter
\* else 0; "next_unit_number": current_unit_value + 1
next_unit_number(c) == (IF c = NoCounter THEN 0 ELSE c) + 1

preview_codes_creating(user_id) ==
    LET cleaned == cleanup_expired_reservations(SAMPLE_RESERVATIONS, now)
        key == <<"sample", NoDept, year>>
        reserved_number ==
            IF has_reservation(cleaned, user_id) THEN cleaned[user_id].number
            ELSE next_number(current_value_or_zero(counters[key]), cleaned)
    IN  /\ reserved_number <= MaxNumber
        /\ SAMPLE_RESERVATIONS' =
               [u \in DOMAIN cleaned \cup {user_id} |->
                   IF u = user_id
                   THEN [number |-> reserved_number, timestamp |-> now]
                   ELSE cleaned[u]]
        /\ counters' = [counters EXCEPT
                           ![key] = IF counters[key] = NoCounter THEN 0 ELSE @]
        /\ resp' = [NoRequest EXCEPT
                       !.op = "preview", !.status = 200,
                       !.number = reserved_number,
                       !.hints = [d \in Depts |->
                                     next_unit_number(counters[unit_key(d, year)])]]
        /\ UNCHANGED <<samples, units>>
        /\ UNCHANGED <<now, year, last, lastCommitted, scen, thr, fmt, coaVars, reservedYear, call, dupCounters>>

\* GET /samples/preview-codes
preview_codes(user_id) ==
    LET cleaned == cleanup_expired_reservations(SAMPLE_RESERVATIONS, now)
        current_value == current_value_or_zero(get_sample_counter(year))
        reserved_number ==
            IF has_reservation(cleaned, user_id) THEN cleaned[user_id].number
            ELSE next_number(current_value, cleaned)
    IN  /\ reserved_number <= MaxNumber
        /\ SAMPLE_RESERVATIONS' =
               [u \in DOMAIN cleaned \cup {user_id} |->
                   IF u = user_id
                   THEN [number |-> reserved_number, timestamp |-> now]
                   ELSE cleaned[u]]
        /\ resp' = [NoRequest EXCEPT
                       !.op = "preview", !.status = 200,
                       !.number = reserved_number,
                       !.hints = [d \in Depts |->
                                     next_unit_number(counters[unit_key(d, year)])]]
        /\ UNCHANGED <<counters, samples, units>>
        /\ UNCHANGED <<now, year, last, lastCommitted, scen, thr, fmt, coaVars, reservedYear, call, dupCounters>>

\* POST /samples/: SampleService.create_sample; db_error: the INSERT of the
\* sample row fails in the database
create_sample(user_id, unit_depts, db_error) ==
    LET key == <<"sample", NoDept, year>>
        c == get_sample_counter(year)
        reserved == has_reservation(SAMPLE_RESERVATIONS, user_id)
        sample_number ==
            IF reserved THEN SAMPLE_RESERVATIONS[user_id].number
            ELSE incremented_value(c)
        committed ==
            [counters EXCEPT ![key] =
                IF reserved
                THEN reserved_assignment(IF c = NoCounter THEN 0 ELSE c,
                                         sample_number)
                ELSE incremented_value(c)]
        code == sample_code(year, sample_number)
        request == [NoRequest EXCEPT !.op = "create", !.req = unit_depts]
    IN  IF \E i \in DOMAIN unit_depts : ~department_exists(unit_depts[i])
        THEN \* HTTPException 400 before anything is allocated
             /\ resp' = [request EXCEPT !.status = 400]
             /\ UNCHANGED <<counters, SAMPLE_RESERVATIONS, samples, units>>
             /\ UNCHANGED <<now, year, last, lastCommitted, scen, thr, fmt, coaVars, reservedYear, call, dupCounters>>
        ELSE /\ sample_number <= MaxNumber
             /\ SAMPLE_RESERVATIONS' =
                    Restrict(SAMPLE_RESERVATIONS,
                             DOMAIN SAMPLE_RESERVATIONS \ {user_id})
             /\ IF db_error \/ code \in samples
                THEN \* self.db.flush() raises after the counter was committed
                     /\ counters' = committed
                     /\ resp' = [request EXCEPT !.status = 500,
                                                !.number = sample_number]
                     /\ UNCHANGED <<samples, units>>
                ELSE LET allocated ==
                             increment_unit_counters(committed, unit_depts, year)
                         codes == unit_codes(unit_depts, allocated.numbers)
                         bad == first_rejected_unit(codes)
                         \* the units inserted before the failing flush; each
                         \* increment_unit_counter commits what was flushed so
                         \* far: the sample row and the units before it
                         kept == IF bad = 0 THEN DOMAIN codes ELSE 1..(bad - 1)
                         done == IF bad = 0 THEN unit_depts
                                 ELSE SubSeq(unit_depts, 1, bad)
                         after == increment_unit_counters(committed, done, year)
                     IN  /\ \A i \in DOMAIN after.numbers :
                               after.numbers[i] <= MaxNumber
                         /\ counters' = after.counters
                         /\ samples' = samples \cup {code}
                         /\ units' = units \cup {codes[i] : i \in kept}
                         /\ resp' = [request EXCEPT
                                        !.status = IF bad = 0 THEN 201 ELSE 500,
                                        !.number = sample_number,
                                        !.unit_numbers = after.numbers]
             /\ UNCHANGED <<now, year, last, lastCommitted, scen, thr, fmt, coaVars, reservedYear, call, dupCounters>>

\* PUT /samples/{sample_id}: SampleService.update_sample with units that
\* carry no id (units added during the edit); found: a row has this id
update_sample(found, unit_depts) ==
    LET request == [NoRequest EXCEPT !.op = "update", !.req = unit_depts]
        \* if not department: continue
        added == existing_departments(unit_depts)
        allocated == increment_unit_counters(counters, added, year)
        codes == unit_codes(added, allocated.numbers)
        bad == first_rejected_unit(codes)
        done == IF bad = 0 THEN added ELSE SubSeq(added, 1, bad)
        after == increment_unit_counters(counters, done, year)
        kept == IF bad = 0 THEN DOMAIN codes ELSE 1..(bad - 1)
    IN  /\ found => samples # {}
        /\ IF ~found
           THEN \* return None: HTTPException 404
                /\ resp' = [request EXCEPT !.status = 404]
                /\ UNCHANGED <<counters, units>>
           ELSE /\ \A i \in DOMAIN after.numbers : after.numbers[i] <= MaxNumber
                /\ counters' = after.counters
                /\ units' = units \cup {codes[i] : i \in kept}
                /\ resp' = [request EXCEPT
                               !.status = IF bad = 0 THEN 200 ELSE 500,
                               !.unit_numbers = after.numbers]
        /\ UNCHANGED <<SAMPLE_RESERVATIONS, samples>>
        /\ UNCHANGED <<now, year, last, lastCommitted, scen, thr, fmt, coaVars, reservedYear, call, dupCounters>>

NextReg ==
    \/ \E u \in Users : preview_codes(u)
    \/ \E u \in Users, r \in UnitRequests, e \in BOOLEAN : create_sample(u, r, e)
    \/ \E found \in BOOLEAN, r \in UnitRequests : update_sample(found, r)

SpecReg == Init /\ [][NextReg]_vars

\* registration requests across the turn of the year
NextRegYear ==
    \/ new_year /\ UNCHANGED extVars
    \/ \E u \in Users : preview_codes(u)
    \/ \E u \in Users, r \in UnitRequests, e \in BOOLEAN : create_sample(u, r, e)
    \/ \E found \in BOOLEAN, r \in UnitRequests : update_sample(found, r)

SpecRegYear == Init /\ [][NextRegYear]_vars

\* registration requests while the clock advances
NextRegClock ==
    \/ Tick /\ UNCHANGED extVars
    \/ \E u \in Users : preview_codes(u)
    \/ \E u \in Users : create_sample(u, <<1>>, FALSE)

SpecRegClock == Init /\ [][NextRegClock]_vars

(***************************************************************************)
(* Report number formatter (app/api/v1/routers/microbiology_coa.py)        *)
(***************************************************************************)
\* the dict disease_codes, in insertion order: fragment, code
disease_codes ==
    << <<"water", "Water">>, <<"culture", "CU">>, <<"fungi", "Fungi">>,
       <<"salmonella", "Salm">>, <<"total count", "Count">>,
       <<"count", "Count">>, <<"ast", "AST">> >>

first_four(disease_name) ==
    SubSeq(disease_name, 1, IF Len(disease_name) < 4 THEN Len(disease_name) ELSE 4)

\* disease_name[:4].upper()
first_four_upper(disease_name) ==
    upper(SubSeq(disease_name, 1,
                 IF Len(disease_name) < 4 THEN Len(disease_name) ELSE 4))

\* the code of the first entry, in dict order, whose fragment is in the
\* lower-cased name; without one, the first four characters upper-cased
generate_disease_code(disease_name) ==
    LET disease_lower == lower(disease_name)
        hits == {i \in DOMAIN disease_codes :
                    contains(disease_codes[i][1], disease_lower)}
    IN  IF hits # {}
        THEN disease_codes[CHOOSE i \in hits : \A j \in hits : i <= j][2]
        ELSE first_four_upper(disease_name)

\* f"{disease_code}{year_short:02d}-{counter_value}"
report_number(disease_code, current_year, counter_value) ==
    disease_code \o two_digits(year_short(current_year)) \o "-"
                 \o ToString(counter_value)

\* words disease names are made of
DiseaseWords ==
    {"Water", "Culture", "culture", "Fungi", "Salmonella", "SALMONELLA",
     "Total Count", "Count", "AST", "Yeast", "Xyzabc", "E.coli", "Ab"}

DiseaseNameInputs ==
    DiseaseWords \cup {a \o " " \o b : a \in DiseaseWords, b \in DiseaseWords}

CurrentYearInputs == {2009, 2025, 2100}

CounterValueInputs == {1, 3, 12}

InitCode ==
    /\ InitStore
    /\ fmt \in {[NoFormat EXCEPT !.disease = n, !.current_year = y,
                                 !.counter_value = v] :
                   n \in DiseaseNameInputs, y \in CurrentYearInputs,
                   v \in CounterValueInputs}

\* one round of the loop of generate_test_report_numbers, for the counter
\* value increment_disease_counter returned
format_report_number ==
    /\ ~fmt.done
    /\ fmt' = [fmt EXCEPT
                  !.done = TRUE,
                  !.disease_code = generate_disease_code(fmt.disease),
                  !.report_number =
                      report_number(generate_disease_code(fmt.disease),
                                    fmt.current_year, fmt.counter_value)]
    /\ UNCHANGED <<counters, SAMPLE_RESERVATIONS, now, year, last, lastCommitted,
                   scen, thr, regVars, coaVars, reservedYear, call,
                   dupCounters>>

NextCode == format_report_number

SpecCode == InitCode /\ [][NextCode]_vars

(***************************************************************************)
(* Microbiology COAs (app/api/v1/routers/microbiology_coa.py), one request *)
(* at a time                                                               *)
(***************************************************************************)
\* units.id of the existing units
CoaUnits == {1, 2}
\* a unit_id no row of units has
MissingUnit == 3
CoaUnitIds == CoaUnits \cup {MissingUnit}

\* payloads: the keys of test_results, in the order of the JSON object
CoaPayloads ==
    {<<"Salmonella">>, <<"Salmonella", "salmonella">>,
     <<"Count", "Salmonella">>, <<"Total Count">>}
\* payloads of an update: test_results of other diseases, or none (None)
CoaUpdatePayloads == {<< >>, <<"Total Count">>}

disease_key_any(disease_name, y) == <<"microbiology_count", NoDept, y>>

\* the row get_disease_counter filters for: counter_type, no department, year
disease_key(disease_name, y) == <<disease_counter_type(disease_name), NoDept, y>>

\* generate_test_report_numbers: increment_disease_counter and the report
\* number for each disease of the list, in order; the counters table after
\* the calls and the dict test_report_numbers
RECURSIVE generate_test_report_numbers(_, _, _)
generate_test_report_numbers(cs, diseases, y) ==
    IF diseases = << >> THEN [counters |-> cs, numbers |-> << >>]
    ELSE LET disease == Head(diseases)
             key == disease_key(disease, y)
             counter_value == incremented_value(cs[key])
             number == report_number(generate_disease_code(disease),
                                     calendar_year(y), counter_value)
             rest == generate_test_report_numbers(
                         [cs EXCEPT ![key] = counter_value], Tail(diseases), y)
         IN  [counters |-> rest.counters,
              numbers |-> [n \in {disease} \cup DOMAIN rest.numbers |->
                              IF n \in DOMAIN rest.numbers THEN rest.numbers[n]
                              ELSE number]]

\* POST /microbiology-coa/; db_error: the INSERT of the COA row fails
create_microbiology_coa(unit_id, test_results, db_error) ==
    LET request == [op |-> "create", status |-> 0, unit |-> unit_id,
                    diseases |-> test_results]
        generated == generate_test_report_numbers(counters, test_results, year)
    IN  /\ IF unit_id \notin CoaUnits
           THEN /\ coaResp' = [request EXCEPT !.status = 404]
                /\ UNCHANGED <<counters, coas>>
           ELSE IF unit_id \in DOMAIN coas
           THEN /\ coaResp' = [request EXCEPT !.status = 400]
                /\ UNCHANGED <<counters, coas>>
           ELSE /\ \A k \in CounterKeys : generated.counters[k] <= MaxNumber
                /\ counters' = generated.counters
                /\ IF db_error
                   THEN /\ coaResp' = [request EXCEPT !.status = 500]
                        /\ UNCHANGED coas
                   ELSE /\ coaResp' = [request EXCEPT !.status = 201]
                        /\ coas' = [u \in DOMAIN coas \cup {unit_id} |->
                                      IF u = unit_id
                                      THEN [test_results |-> test_results,
                                            test_report_numbers |->
                                                generated.numbers]
                                      ELSE coas[u]]
        /\ UNCHANGED <<SAMPLE_RESERVATIONS, now, year, last, lastCommitted,
                       scen, thr, regVars, fmt, reservedYear, call,
                       dupCounters>>

updated_coa_renumbered(coa, provided, test_results) ==
    [test_results |-> test_results, test_report_numbers |-> << >>]

\* the row after "if coa_data.test_results is not None: coa.test_results =
\* coa_data.test_results" and the other field assignments
updated_coa(coa, provided, test_results) ==
    IF provided THEN [coa EXCEPT !.test_results = test_results] ELSE coa

\* PUT /microbiology-coa/{coa_id}, for the COA of a unit; provided: the
\* payload carries test_results
update_microbiology_coa(unit_id, provided, test_results) ==
    LET request == [op |-> "update", status |-> 0, unit |-> unit_id,
                    diseases |-> test_results]
    IN  /\ IF unit_id \notin DOMAIN coas
           THEN /\ coaResp' = [request EXCEPT !.status = 404]
                /\ UNCHANGED coas
           ELSE /\ coaResp' = [request EXCEPT !.status = 200]
                /\ coas' = [coas EXCEPT
                               ![unit_id] = updated_coa(coas[unit_id], provided,
                                                        test_results)]
        /\ UNCHANGED <<counters, SAMPLE_RESERVATIONS, now, year, last,
                       lastCommitted, scen, thr, regVars, fmt, reservedYear, call,
                       dupCounters>>

NextCoa ==
    \/ \E u \in CoaUnitIds, p \in CoaPayloads, e \in BOOLEAN :
          create_microbiology_coa(u, p, e)
    \/ \E u \in CoaUnitIds, p \in CoaUpdatePayloads :
          update_microbiology_coa(u, p # << >>, p)

SpecCoa == Init /\ [][NextCoa]_vars

TypeOK ==
    /\ DOMAIN SAMPLE_RESERVATIONS \subseteq Users
    /\ now \in 0..MaxNow
    /\ \A k \in CounterKeys : counters[k] \in -1..(MaxValue + NumUsers)

(***************************************************************************)
(* Claims about the allocation protocol, one request at a time (Spec)      *)
(***************************************************************************)
SampleKey == <<"sample", NoDept, year>>

\* the persisted value a commit starts from (a missing counter is created with 0)
PersistedValue == IF counters[SampleKey] = NoCounter THEN 0 ELSE counters[SampleKey]

IsActive(u) ==
    /\ u \in DOMAIN SAMPLE_RESERVATIONS
    /\ ~is_expired(SAMPLE_RESERVATIONS[u].timestamp, now)

IsStale(u) ==
    /\ u \in DOMAIN SAMPLE_RESERVATIONS
    /\ is_expired(SAMPLE_RESERVATIONS[u].timestamp, now)

\* C1: on every key, each commit returns a value strictly greater than the
\* value the previous commit on that key returned (so the committed values
\* are pairwise distinct and increase in commit order).
C1_CommitsStrictlyIncreasing ==
    [][\A u \in Users :
          increment_sample_counter_with_reservation(u)
              => last'.ret > lastCommitted[SampleKey]]_vars

\* C2: no step lowers the current_value of a counter, and no step removes an
\* existing counter.
C2_CurrentValueNeverDecreases ==
    [][\A k \in CounterKeys :
          /\ counters'[k] >= counters[k]
          /\ counters[k] # NoCounter => counters'[k] # NoCounter]_vars

\* C4: a commit by a requester holding an unexpired reservation r returns r,
\* removes exactly that requester's reservation and leaves current_value at
\* max(previous current_value, r).
C4_CommitForcesToMax ==
    [][\A u \in Users :
          (IsActive(u) /\ increment_sample_counter_with_reservation(u))
              => /\ last'.ret = SAMPLE_RESERVATIONS[u].number
                 /\ u \notin DOMAIN SAMPLE_RESERVATIONS'
                 /\ counters'[SampleKey] =
                        Max(PersistedValue, SAMPLE_RESERVATIONS[u].number)]_vars

\* C5: two unexpired reservations of different requesters never hold the same
\* reserved value.
C5_ActiveReservationsDistinct ==
    \A u, v \in Users :
        (u # v /\ IsActive(u) /\ IsActive(v))
            => SAMPLE_RESERVATIONS[u].number # SAMPLE_RESERVATIONS[v].number

\* C6: a reserveNext by a requester whose reservation is unexpired returns the
\* value that reservation holds and keeps it, whatever the counter and the
\* other reservations are by then.
C6_ReserveIdempotentInTTL ==
    [][\A u \in Users :
          (IsActive(u) /\ reserve_next_sample_number(u))
              => /\ last'.ret = SAMPLE_RESERVATIONS[u].number
                 /\ u \in DOMAIN SAMPLE_RESERVATIONS'
                 /\ SAMPLE_RESERVATIONS'[u].number =
                        SAMPLE_RESERVATIONS[u].number]_vars

\* a repeated preview returned a held value that a fresh computation would not
\* have produced (the counter or the other reservations changed in between)
C6_Witness ==
    /\ last.kind = "refresh"
    /\ last.user \in DOMAIN SAMPLE_RESERVATIONS
    /\ last.ret = SAMPLE_RESERVATIONS[last.user].number
    /\ last.ret # PersistedValue + Cardinality(DOMAIN SAMPLE_RESERVATIONS)
    /\ counters[SampleKey] # NoCounter

\* C7: when a requester holding no unexpired reservation calls reserveNext
\* directly after another requester that held none either (no commit in
\* between), the two values differ and the second is the first plus 1.
C7_ConsecutivePreviewsPlusOne ==
    [][\A v \in Users :
          (/\ last.kind = "reserve"
           /\ last.user # v
           /\ ~IsActive(v)
           /\ reserve_next_sample_number(v))
              => /\ last'.ret = last.ret + 1
                 /\ last'.ret # last.ret]_vars

\* C7 amended: as C7, provided no reservation has passed the timeout between
\* the two calls.
C7_FreshConsecutivePreviewsPlusOne ==
    [][\A v \in Users :
          (/\ last.kind = "reserve"
           /\ last.user # v
           /\ ~IsActive(v)
           /\ \A w \in DOMAIN SAMPLE_RESERVATIONS : IsActive(w)
           /\ reserve_next_sample_number(v))
              => /\ last'.ret = last.ret + 1
                 /\ last'.ret # last.ret]_vars

\* two first previews by different requesters, one after the other
C7_Witness ==
    /\ scen.stage = 2
    /\ last.kind = "reserve"
    /\ last.user = scen.b
    /\ scen.a # scen.b
    /\ {scen.a, scen.b} \subseteq DOMAIN SAMPLE_RESERVATIONS
    /\ SAMPLE_RESERVATIONS[scen.b].number = SAMPLE_RESERVATIONS[scen.a].number + 1

C9_StaleCommitFallsBack ==
    [][\A u \in Users :
          (IsStale(u) /\ increment_sample_counter_with_reservation(u))
              => /\ last'.ret = PersistedValue + 1
                 /\ counters'[SampleKey] = PersistedValue + 1]_vars

\* C10: from current_value = base with no active reservation, A previews
\* (base + 1), B previews (base + 2), A commits: current_value = base + 1 and
\* only B's reservation is left; B commits: current_value = base + 2.
C10_InOrderCommits ==
    /\ scen.stage = 1 => last.ret = scen.base + 1
    /\ scen.stage = 2 => last.ret = scen.base + 2
    /\ scen.stage = 3 =>
          /\ last.ret = scen.base + 1
          /\ counters[SampleKey] = scen.base + 1
          /\ DOMAIN SAMPLE_RESERVATIONS = {scen.b}
          /\ SAMPLE_RESERVATIONS[scen.b].number = scen.base + 2
    /\ scen.stage = 4 =>
          /\ last.ret = scen.base + 2
          /\ counters[SampleKey] = scen.base + 2
          /\ DOMAIN SAMPLE_RESERVATIONS = {}

\* the four-step scenario ran to its end from an existing counter
C10_Witness ==
    /\ scen.stage = 4
    /\ scen.base > 0
    /\ last.kind = "commit_reserved"
    /\ last.user = scen.b

\* C23: an unexpired reservation stays, with its value, through every step
\* but its holder's commit, which removes it; its timestamp changes only by
\* its holder's reserveNext, which sets it to the current time and keeps the
\* value; and the reservation of a user changes in no other step than that
\* user's reserveNext or commit or a sweep of it after it has expired.
C23_ReleasedOnlyByCommitOrExpiry ==
    [][\A u \in Users :
          /\ IsActive(u)
                => \/ /\ u \in DOMAIN SAMPLE_RESERVATIONS'
                      /\ SAMPLE_RESERVATIONS'[u].number =
                             SAMPLE_RESERVATIONS[u].number
                      /\ \/ SAMPLE_RESERVATIONS'[u].timestamp =
                                SAMPLE_RESERVATIONS[u].timestamp
                         \/ /\ reserve_next_sample_number(u)
                            /\ SAMPLE_RESERVATIONS'[u].timestamp = now
                   \/ /\ increment_sample_counter_with_reservation(u)
                      /\ u \notin DOMAIN SAMPLE_RESERVATIONS'
          /\ (IsActive(u) /\ reserve_next_sample_number(u))
                => /\ SAMPLE_RESERVATIONS'[u].timestamp = now
                   /\ ~is_expired(SAMPLE_RESERVATIONS'[u].timestamp,
                                  now + RESERVATION_TIMEOUT_MINUTES)
          /\ (/\ u \in DOMAIN SAMPLE_RESERVATIONS
              /\ u \notin DOMAIN SAMPLE_RESERVATIONS'
              /\ ~increment_sample_counter_with_reservation(u))
                => is_expired(SAMPLE_RESERVATIONS[u].timestamp, now)]_vars

\* a reservation made at time 0 was kept alive by repeated previews beyond the
\* timeout while another requester committed
C23_Witness ==
    /\ last.kind = "refresh"
    /\ now > RESERVATION_TIMEOUT_MINUTES + 1
    /\ SAMPLE_RESERVATIONS[last.user].timestamp = now
    /\ SAMPLE_RESERVATIONS[last.user].number = 1
    /\ last.ret = 1
    /\ counters[SampleKey] = 1

(***************************************************************************)
(* Claims about concurrent increments (SpecRace)                           *)
(***************************************************************************)
Min(a, b) == IF a <= b THEN a ELSE b

\* C3: when two incrementAndCommit calls on the same existing counter have
\* both returned, they returned different values and current_value is
\* exactly 2 above the value it had before the two calls.
C3_NoLostUpdate ==
    \A t1, t2 \in Threads :
        (/\ t1 # t2
         /\ thr[t1].pc = "done" /\ thr[t2].pc = "done"
         /\ thr[t1].key = thr[t2].key
         /\ thr[t1].start # NoCounter /\ thr[t2].start # NoCounter)
            => /\ thr[t1].ret # thr[t2].ret
               /\ counters[thr[t1].key] = Min(thr[t1].start, thr[t2].start) + 2

\* C22: when two allocations on one key have both found no counter and both
\* have ended, both returned a value and exactly one counter exists for the
\* key, also for a key without a department.
C22_OneCounterAfterFirstAllocations ==
    \A t1, t2 \in Threads :
        (/\ t1 # t2
         /\ thr[t1].pc \in {"done", "failed"} /\ thr[t2].pc \in {"done", "failed"}
         /\ thr[t1].key = thr[t2].key
         /\ thr[t1].missed /\ thr[t2].missed)
            => /\ thr[t1].pc = "done" /\ thr[t2].pc = "done"
               /\ DOMAIN counter_rows(thr[t1].key) = {1}
(***************************************************************************)
(* Claims about sample registration (SpecReg)                              *)
(***************************************************************************)
OldValue(k) == IF counters[k] = NoCounter THEN 0 ELSE counters[k]

Occurrences(seq, d, i) == Cardinality({j \in 1..i : seq[j] = d})

\* the departments a request allocated unit numbers for, in allocation order
AllocatedDepts(r) ==
    SubSeq(IF r.op = "update" THEN existing_departments(r.req) ELSE r.req,
           1, Len(r.unit_numbers))

\* the unit numbers a request allocated for a department are the next ones
\* after the counter's previous value, and the counter ends at the last one
UnitCommitsPlusOne ==
    LET depts == AllocatedDepts(resp')
    IN  /\ \A i \in DOMAIN depts :
              resp'.unit_numbers[i] =
                  OldValue(<<"unit", depts[i], year>>) + Occurrences(depts, depts[i], i)
        /\ \A d \in Depts :
              Occurrences(depts, d, Len(depts)) > 0
                  => counters'[<<"unit", d, year>>] =
                         OldValue(<<"unit", d, year>>)
                             + Occurrences(depts, d, Len(depts))

\* C11: with one request at a time, every commit raises the current_value of
\* its key by exactly 1 and returns the raised value: the sample number of
\* every registration that passes validation, and every unit number.
C11_EveryCommitPlusOne ==
    [][/\ \A u \in Users, r \in UnitRequests, e \in BOOLEAN :
             (create_sample(u, r, e) /\ resp'.status # 400)
                 => /\ counters'[SampleKey] = PersistedValue + 1
                    /\ resp'.number = PersistedValue + 1
                    /\ UnitCommitsPlusOne
       /\ \A f \in BOOLEAN, r \in UnitRequests :
             update_sample(f, r) => UnitCommitsPlusOne]_vars

\* C11 amended: as C11, but for the sample number only when the requester
\* holds no reservation or its reserved value is current_value + 1 (the
\* reservation a registration commits is the one it removes).
C11_DirectCommitPlusOne ==
    [][/\ (resp'.op = "create" /\ resp'.status # 400)
             => /\ (\A u \in DOMAIN SAMPLE_RESERVATIONS \ DOMAIN SAMPLE_RESERVATIONS' :
                        SAMPLE_RESERVATIONS[u].number = PersistedValue + 1)
                       => /\ counters'[SampleKey] = PersistedValue + 1
                          /\ resp'.number = PersistedValue + 1
                /\ UnitCommitsPlusOne
       /\ resp'.op = "update" => UnitCommitsPlusOne]_vars

\* a second registration took sample number 2 and unit numbers 1 and 2 of
\* one department
C11_Witness ==
    /\ resp.op = "create"
    /\ resp.status = 201
    /\ resp.req = <<1, 1>>
    /\ resp.unit_numbers = <<1, 2>>
    /\ resp.number = 2
    /\ counters[SampleKey] = 2
    /\ counters[<<"unit", 1, year>>] = 2
    /\ sample_code(year, 1) \in samples

\* C12: when the INSERT of the sample row fails, the sample counter and the
\* reservations are as before the request; and the sample number returned by
\* the commit of any registration belongs to a persisted sample afterwards.
C12_NumberConsumedOnlyWithRecord ==
    [][\A u \in Users, r \in UnitRequests, e \in BOOLEAN :
          (create_sample(u, r, e) /\ resp'.status # 400)
              => /\ sample_code(year, resp'.number) \notin samples'
                        => /\ counters'[SampleKey] = counters[SampleKey]
                           /\ SAMPLE_RESERVATIONS' = SAMPLE_RESERVATIONS
                 /\ resp'.status = 201
                        => sample_code(year, resp'.number) \in samples']_vars

\* C13: a registration or an update whose units name a department that does
\* not exist is answered with status 400, changes no counter and no
\* reservation.
C13_MissingDepartmentRejected ==
    [][/\ \A u \in Users, r \in UnitRequests, e \in BOOLEAN :
             (create_sample(u, r, e) /\ \E i \in DOMAIN r : r[i] \notin Depts)
                 => /\ resp'.status = 400
                    /\ counters' = counters
                    /\ SAMPLE_RESERVATIONS' = SAMPLE_RESERVATIONS
       /\ \A r \in UnitRequests :
             (update_sample(TRUE, r) /\ \E i \in DOMAIN r : r[i] \notin Depts)
                 => /\ resp'.status = 400
                    /\ counters' = counters
                    /\ SAMPLE_RESERVATIONS' = SAMPLE_RESERVATIONS]_vars

\* C14: a request changes the current_value of no counter but the sample
\* counter of the year (registration only) and the unit counters of the year
\* for the departments of its units; a preview changes no counter.
C14_CountersIsolatedPerKey ==
    [][/\ resp'.op = "create"
             => \A k \in CounterKeys :
                   counters'[k] # counters[k]
                       => \/ k = <<"sample", NoDept, year>>
                          \/ \E i \in DOMAIN resp'.req :
                                k = <<"unit", resp'.req[i], year>>
       /\ resp'.op = "update"
             => \A k \in CounterKeys :
                   counters'[k] # counters[k]
                       => \E i \in DOMAIN resp'.req :
                             k = <<"unit", resp'.req[i], year>>
       /\ resp'.op = "preview" => counters' = counters]_vars

\* a unit was added for department 1 while department 2 and the sample
\* counter held values of their own
C14_Witness ==
    /\ resp.op = "update"
    /\ resp.status = 200
    /\ resp.req = <<1>>
    /\ resp.unit_numbers = <<2>>
    /\ counters[<<"unit", 1, year>>] = 2
    /\ counters[<<"unit", 2, year>>] = 1
    /\ counters[SampleKey] = 1

C25_CountersCreatedLazily ==
    [][/\ \A k \in CounterKeys :
             (counters[k] = NoCounter /\ counters'[k] # NoCounter)
                 => \/ resp'.op = "create" /\ k = SampleKey
                    \/ /\ resp'.op \in {"create", "update"}
                       /\ \E i \in DOMAIN AllocatedDepts(resp') :
                             k = <<"unit", AllocatedDepts(resp')[i], year>>
       /\ (/\ resp'.op = "create"
           /\ resp'.status # 400
           /\ counters[SampleKey] = NoCounter)
             => LET committed ==
                        DOMAIN SAMPLE_RESERVATIONS \ DOMAIN SAMPLE_RESERVATIONS'
                IN  IF committed # {}
                    THEN \A u \in committed :
                            /\ resp'.number = SAMPLE_RESERVATIONS[u].number
                            /\ counters'[SampleKey] = SAMPLE_RESERVATIONS[u].number
                    ELSE /\ resp'.number = 1
                         /\ counters'[SampleKey] = 1
       /\ resp'.op \in {"create", "update"}
             => LET depts == AllocatedDepts(resp')
                IN  \A i \in DOMAIN depts :
                       (/\ counters[<<"unit", depts[i], year>>] = NoCounter
                        /\ Occurrences(depts, depts[i], i) = 1)
                           => /\ resp'.unit_numbers[i] = 1
                              /\ counters'[<<"unit", depts[i], year>>] =
                                     Occurrences(depts, depts[i], Len(depts))]_vars

\* the first registration of the year committed the reserved value 2 while
\* requester 1 still held 1, and took the first unit number of department 1
C25_Witness ==
    /\ resp.op = "create"
    /\ resp.status = 201
    /\ resp.number = 2
    /\ resp.unit_numbers = <<1>>
    /\ counters[SampleKey] = 2
    /\ counters[<<"unit", 1, year>>] = 1
    /\ counters[<<"unit", 2, year>>] = NoCounter
    /\ samples = {sample_code(year, 2)}
    /\ units = {unit_code(1, 1)}
    /\ DOMAIN SAMPLE_RESERVATIONS = {1}
    /\ SAMPLE_RESERVATIONS[1].number = 1
(***************************************************************************)
(* Claims about the report-number formatter (SpecCode)                     *)
(***************************************************************************)
\* the table entries whose fragment occurs in the lower-cased name
MatchingEntries(disease_name) ==
    {i \in DOMAIN disease_codes : contains(disease_codes[i][1], lower(disease_name))}

\* C17: when fragments of the table occur in the lower-cased disease name, the
\* code returned is the code of a longest one of them.
C17_LongestMatchPrefix ==
    (fmt.done /\ MatchingEntries(fmt.disease) # {})
        => \E i \in MatchingEntries(fmt.disease) :
              /\ \A j \in MatchingEntries(fmt.disease) :
                    Len(disease_codes[j][1]) <= Len(disease_codes[i][1])
              /\ fmt.disease_code = disease_codes[i][2]

DiseaseKeyOf(n) == <<"microbiology_" \o lower(n), NoDept, year>>

\* C15: creating a COA raises, for each disease name of its payload, the
\* counter of that disease for the current year by exactly 1 and changes no
\* other counter; the report number stored for the name carries that value.
C15_OneCounterPerDisease ==
    [][(coaResp'.op = "create" /\ coaResp'.status \in {201, 500})
          => LET p == coaResp'.diseases
             IN  /\ \A i \in DOMAIN p :
                        counters'[DiseaseKeyOf(p[i])] = OldValue(DiseaseKeyOf(p[i])) + 1
                 /\ \A k \in CounterKeys :
                        (\A i \in DOMAIN p : k # DiseaseKeyOf(p[i]))
                            => counters'[k] = counters[k]
                 /\ coaResp'.status = 201
                        => \A i \in DOMAIN p :
                              coas'[coaResp'.unit].test_report_numbers[p[i]] =
                                  generate_disease_code(p[i]) \o "25-"
                                      \o ToString(OldValue(DiseaseKeyOf(p[i])) + 1)]_vars

\* C15 amended: creating a COA raises the counter of each lower-cased disease
\* name of its payload by the number of payload names that lower-case to it
\* (1 unless two names differ only in letter case) and changes no other
\* counter; the names get the values after the previous one in payload order.
C15_OneCounterPerLoweredDisease ==
    [][(coaResp'.op = "create" /\ coaResp'.status \in {201, 500})
          => LET p == coaResp'.diseases
             IN  /\ \A i \in DOMAIN p :
                        counters'[DiseaseKeyOf(p[i])] =
                            OldValue(DiseaseKeyOf(p[i]))
                                + Cardinality({j \in DOMAIN p :
                                                  lower(p[j]) = lower(p[i])})
                 /\ \A k \in CounterKeys :
                        (\A i \in DOMAIN p : k # DiseaseKeyOf(p[i]))
                            => counters'[k] = counters[k]
                 /\ coaResp'.status = 201
                        => \A i \in DOMAIN p :
                              coas'[coaResp'.unit].test_report_numbers[p[i]] =
                                  generate_disease_code(p[i]) \o "25-"
                                      \o ToString(
                                            OldValue(DiseaseKeyOf(p[i]))
                                                + Cardinality({j \in 1..i :
                                                      lower(p[j]) = lower(p[i])}))]_vars

\* the COAs of two units got the consecutive numbers 1 and 2 for one disease
C15_Witness ==
    /\ coaResp.op = "create"
    /\ coaResp.status = 201
    /\ coaResp.unit = 2
    /\ DOMAIN coas = {1, 2}
    /\ coas[1].test_results = <<"Salmonella">>
    /\ coas[1].test_report_numbers["Salmonella"] = "Salm25-1"
    /\ coas[2].test_results = <<"Count", "Salmonella">>
    /\ coas[2].test_report_numbers["Salmonella"] = "Salm25-2"
    /\ coas[2].test_report_numbers["Count"] = "Count25-1"

\* C16: an update of a COA leaves the test_report_numbers of every COA and
\* every counter unchanged, whatever test_results it carries.
C16_ReportNumbersImmutable ==
    [][\A u \in CoaUnitIds, p \in CoaUpdatePayloads :
          update_microbiology_coa(u, p # << >>, p)
              => /\ counters' = counters
                 /\ DOMAIN coas' = DOMAIN coas
                 /\ \A v \in DOMAIN coas :
                       coas'[v].test_report_numbers = coas[v].test_report_numbers]_vars

\* an update replaced the diseases of a COA that holds report numbers
C16_Witness ==
    /\ coaResp.op = "update"
    /\ coaResp.status = 200
    /\ coaResp.unit \in DOMAIN coas
    /\ DOMAIN coas[coaResp.unit].test_report_numbers = {"Salmonella"}
    /\ coas[coaResp.unit].test_results = <<"Total Count">>
    /\ coas[coaResp.unit].test_report_numbers["Salmonella"] = "Salm25-1"

\* C28: no report number is stored twice (the year does not change here), and
\* two stored report numbers with the same prefix come from the same counter.
C28_ReportNumbersIssuedOnce ==
    \A u, v \in DOMAIN coas :
        \A n \in DOMAIN coas[u].test_report_numbers,
           k \in DOMAIN coas[v].test_report_numbers :
            /\ (u # v \/ n # k)
                  => coas[u].test_report_numbers[n] # coas[v].test_report_numbers[k]
            /\ generate_disease_code(n) = generate_disease_code(k)
                  => disease_counter_type(n) = disease_counter_type(k)
(***************************************************************************)
(* Claims about the allocation protocol across years (SpecYear)            *)
(***************************************************************************)
\* C20: a reserveNext by a requester without an unexpired reservation returns
\* the persisted value of the current year's counter + 1 + the number of other
\* requesters' unexpired reservations made for that counter; reservations
\* made for another year's counter are not counted.
C20_CountsReservationsOfTheKey ==
    [][\A u \in Users :
          (~IsActive(u) /\ reserve_next_sample_number(u))
              => last'.ret =
                     PersistedValue + 1
                         + Cardinality({w \in Users \ {u} :
                                           IsActive(w) /\ reservedYear[w] = year})]_vars
(***************************************************************************)
(* Claims about interleaved requests on the reservation cache (SpecCache)  *)
(***************************************************************************)
\* C21: when two users' reserveNext calls on the same key have both returned
\* a newly computed value and one computed its value while the other had
\* computed but not yet stored its own, the two values are distinct and
\* consecutive.
C21_InterleavedPreviewsDistinct ==
    \A u, v \in Users :
        (/\ u # v
         /\ call[u].pc = "done" /\ call[u].op = "reserve"
         /\ call[v].pc = "done" /\ call[v].op = "reserve"
         /\ call[v].peer = u)
            => \/ call[v].ret = call[u].ret + 1
               \/ call[u].ret = call[v].ret + 1
\* C26: a commit that runs interleaved with other users' reserveNext calls
\* never fails: not at the read of its reservation, and not at the removal of
\* its reservation after it has written the counter.
C26_InterleavedCommitCompletes ==
    \A u \in Users : call[u].op = "commit" => call[u].pc # "failed"
(***************************************************************************)
(* Claims about registration while the clock advances (SpecRegClock)       *)
(***************************************************************************)
\* C24: a preview (reserving a number, refreshing a reservation, sweeping
\* expired reservations, computing the hints of the departments) changes the
\* current_value of no counter and creates no counter, also when the key has
\* no counter yet.
C24_PreviewLeavesCountersAlone ==
    [][\A u \in Users :
          preview_codes(u)
              => /\ \A k \in CounterKeys :
                       /\ counters'[k] = counters[k]
                       /\ dupCounters'[k] = dupCounters[k]
                       /\ counters[k] = NoCounter => counters'[k] = NoCounter
                 /\ samples' = samples
                 /\ units' = units]_vars

\* without any counter, a preview swept requester 1's expired reservation and
\* refreshed requester 2's, returning the hint 1 for every department
C24_Witness ==
    /\ resp.op = "preview"
    /\ now > RESERVATION_TIMEOUT_MINUTES
    /\ DOMAIN SAMPLE_RESERVATIONS = {2}
    /\ SAMPLE_RESERVATIONS[2] = [number |-> 2, timestamp |-> now]
    /\ resp.number = 2
    /\ \A d \in Depts : resp.hints[d] = 1
    /\ \A k \in CounterKeys : counters[k] = NoCounter
(***************************************************************************)
(* Claims about registration across years (SpecRegYear)                    *)
(***************************************************************************)
\* the unit codes a request rendered from the unit numbers it was given
RenderedUnitCodes(r) == unit_codes(AllocatedDepts(r), r.unit_numbers)

\* C27: the unit codes a registration or update renders are codes no unit
\* carries yet and differ from each other, in every year.
C27_UnitCodesIssuedOnce ==
    [][resp'.op \in {"create", "update"}
          => LET codes == RenderedUnitCodes(resp')
             IN  \A i \in DOMAIN codes :
                    /\ codes[i] \notin units
                    /\ \A j \in DOMAIN codes : j # i => codes[j] # codes[i]]_vars

\* C30: a registration that does not end with status 201 leaves the samples
\* and the units as they were, and a registration that stores its sample
\* stores a unit for every entry of its units list.
C30_RegistrationAllOrNothing ==
    [][resp'.op = "create"
          => /\ resp'.status # 201 => samples' = samples /\ units' = units
             /\ samples' # samples
                   => /\ Len(resp'.unit_numbers) = Len(resp'.req)
                      /\ \A i \in DOMAIN resp'.req :
                            unit_code(resp'.req[i], resp'.unit_numbers[i])
                                \in units']_vars
\* C29: the commit of a reservation changes the sample counter of no other
\* year than the one whose counter the reserved value was computed from.
C29_ReservationStaysInItsYear ==
    [][\A u \in Users :
          (/\ u \in DOMAIN SAMPLE_RESERVATIONS
           /\ increment_sample_counter_with_reservation(u))
              => \A y \in Years :
                    counters'[<<"sample", NoDept, y>>] # counters[<<"sample", NoDept, y>>]
                        => y = reservedYear[u]]_vars
=============================================================================
